---- MODULE Spec2Model ----
(***************************************************************************)
(* Skill verification canister (src/src/index.ts): an express application  *)
(* whose handlers read and write one StableBTreeMap of User records.       *)
(*                                                                         *)
(* One action per route.  A handler runs to completion (the canister       *)
(* processes one update call at a time), so each action is the whole       *)
(* handler: validation middleware, lookups, mutation, insert and response. *)
(*                                                                         *)
(* JSON request bodies are functions from the field names that are present *)
(* to their values; an absent field is absent from the DOMAIN.  A JSON     *)
(* value that is not a string is the marker NonString.                     *)
(*                                                                         *)
(* The express-rate-limit middleware (100 requests per 15 minutes) is not   *)
(* modelled: the requests here are those it lets through.                  *)
(***************************************************************************)
EXTENDS Integers, Sequences, FiniteSets, TLC

(* ------------------------------ bounds -------------------------------- *)

\* how many skills AddSkills lets one profile grow to
MaxSkills == 2
\* how many ratings are appended before the clock stops
MaxClock == 1

(* ------------------------- program constants -------------------------- *)

\* body('age').isInt({ min: 0 })
MinAge == 0
\* body('score').isInt({ min: 1, max: 5 })
MinScore == 1
MaxScore == 5

(* ---------------------------- input values ---------------------------- *)

\* the ids uuidv4() returns, in the order it returns them (ascending)
UuidPool == <<"u1", "u2">>
Uuid(n) == UuidPool[n]
AllIds == {Uuid(n) : n \in 1..Len(UuidPool)}

\* a JSON value whose typeof is not 'string'
NonString == "<non-string>"
\* the value of a property that was never set
Undefined == "<undefined>"

\* the values the requests of Next carry
Names == {"Alice"}
Ages == {30}
SkillNames == {"Go"}
Comments == {}
\* the :skillName parameters: "TS" is a skill nobody owns
SkillParams == SkillNames \cup {"TS"}

NameVals == Names \cup {NonString}
AgeVals == Ages \cup {MinAge - 1}
SkillNameVals == SkillNames \cup {NonString, Undefined}
ScoreVals == {MinScore - 1, MaxScore, MaxScore + 1}
VerifierVals == AllIds \cup {NonString}
CommentVals == Comments \cup {NonString}

\* a rating written by the client into a request body, not by the verify route
Forged(v) == [userId |-> v, score |-> 3, comment |-> Undefined, createdAt |-> 0]

\* the "skills" property a client may put into the body of POST /users or
\* PUT /users/:id
SkillsPayloads ==
    { << [name |-> "Go", verified |-> FALSE,
          ratings |-> << Forged("u9"), Forged("u9") >>] >> }

\* a JSON value for the "skills" property of POST /users/:id/skills: an
\* array of { name } objects, or something that is not an array
SeqsUpTo(S, n) == UNION {[1..m -> S] : m \in 0..n}
SkillsArrays ==
    {[isArray |-> TRUE, items |-> q] :
        q \in SeqsUpTo({[name |-> v] : v \in SkillNameVals}, MaxSkills)}
    \cup {[isArray |-> FALSE, items |-> << >>]}

(* ------------------------------- state -------------------------------- *)

VARIABLES
    usersStorage,   \* StableBTreeMap<string, User>: key -> User
    uuidCount,      \* how many ids uuidv4() has returned
    clock,          \* ic.time()
    route,          \* the route that handled the last request
    res,            \* the response to the last request
    createdId,      \* history: key -> the id its record had when created
    appended        \* history: <<userId, skillName, rating>> the verify route appended

vars == <<usersStorage, uuidCount, clock, route, res, createdId, appended>>

(* ------------------------------ helpers ------------------------------- *)

\* { ...a, ...b }
Spread(a, b) ==
    [k \in DOMAIN a \cup DOMAIN b |-> IF k \in DOMAIN b THEN b[k] ELSE a[k]]

\* a field of a request body: absent ({}) or present with one value ({v})
Opt(S) == {{}} \cup {{v} : v \in S}
The(o) == CHOOSE v \in o : TRUE

\* the body of POST /users and PUT /users/:id; n, a, i, s are the fields
UserBody(n, a, i, s) ==
    LET o == [name |-> n /= {}, age |-> a /= {}, id |-> i /= {}, skills |-> s /= {}]
    IN  [k \in {f \in DOMAIN o : o[f]} |->
            CASE k = "name" -> The(n)
              [] k = "age" -> The(a)
              [] k = "id" -> The(i)
              [] k = "skills" -> The(s)]

\* the body of POST /users/:userId/skills/:skillName/verify
RatingBody(v, sc, c) ==
    LET o == [userId |-> v /= {}, score |-> sc /= {}, comment |-> c /= {}]
    IN  [k \in {f \in DOMAIN o : o[f]} |->
            CASE k = "userId" -> The(v)
              [] k = "score" -> The(sc)
              [] k = "comment" -> The(c)]

\* the body of POST /users/:id/skills
SkillsBody(sk) == [k \in {f \in {"skills"} : sk /= {}} |-> The(sk)]

\* usersStorage.insert(k, v)
Insert(store, k, v) ==
    [x \in DOMAIN store \cup {k} |-> IF x = k THEN v ELSE store[x]]

\* usersStorage.remove(k)
Remove(store, k) == [x \in DOMAIN store \ {k} |-> store[x]]

\* usersStorage.items(): [key, value] pairs in ascending key order
Items(store) ==
    LET keys == SelectSeq(UuidPool, LAMBDA k : k \in DOMAIN store)
    IN  [i \in 1..Len(keys) |-> <<keys[i], store[keys[i]]>>]

\* isString(): typeof v === 'string'
isString(v) == v \notin {NonString, Undefined}

\* res.status(s).json(b) and res.status(s).send(b)
Json(s, b) == [status |-> s, type |-> "json", body |-> b]
Send(s, b) == [status |-> s, type |-> "text", body |-> b]

\* what a handler leaves behind: its response and the store
Out(r, store) == [res |-> r, store |-> store]

\* userInputValidator: the fields that fail, in chain order
userInputValidator(body) ==
    LET bad(f) ==
            CASE f = "name" -> ~("name" \in DOMAIN body /\ isString(body.name))
              [] f = "age" -> ~("age" \in DOMAIN body /\ body.age >= MinAge)
    IN  SelectSeq(<<"name", "age">>, bad)

\* skillInputValidator: 'skills.*.name' selects the name of every element
skillInputValidator(body) ==
    IF "skills" \in DOMAIN body
    THEN LET items == body.skills.items
         IN  SelectSeq([i \in 1..Len(items) |-> i],
                       LAMBDA i : ~isString(items[i].name))
    ELSE << >>

\* validateRatingInput
validateRatingInput(body) ==
    LET bad(f) ==
            CASE f = "userId" -> ~("userId" \in DOMAIN body /\ isString(body.userId))
              [] f = "score" -> ~("score" \in DOMAIN body /\ body.score >= MinScore
                                    /\ body.score <= MaxScore)
              [] f = "comment" -> "comment" \in DOMAIN body /\ ~isString(body.comment)
    IN  SelectSeq(<<"userId", "score", "comment">>, bad)

\* user.skills.findIndex(s => s.name === skillName), 0 for -1
FindIndex(skills, skillName) ==
    IF \E i \in 1..Len(skills) : skills[i].name = skillName
    THEN CHOOSE i \in 1..Len(skills) :
            /\ skills[i].name = skillName
            /\ \A j \in 1..(i - 1) : skills[j].name /= skillName
    ELSE 0

\* skill.ratings.find(r => r.userId === verifierId) is defined
HasRated(skill, verifierId) ==
    \E i \in 1..Len(skill.ratings) : skill.ratings[i].userId = verifierId

\* skill.ratings.push(rating); skill.verified = skill.ratings.length > 0
Rate(skill, rating) ==
    LET ratings == Append(skill.ratings, rating)
    IN  [skill EXCEPT !.ratings = ratings, !.verified = Len(ratings) > 0]

\* skills.forEach(skill => user.skills.push({ name, verified: false, ratings: [] }))
PushSkills(userSkills, skills) ==
    userSkills \o [i \in 1..Len(skills) |->
                      [name |-> skills[i].name, verified |-> FALSE, ratings |-> << >>]]

\* user.skills.splice(skillIndex, 1)
Splice(skills, skillIndex) ==
    [i \in 1..(Len(skills) - 1) |->
        IF i < skillIndex THEN skills[i] ELSE skills[i + 1]]

(* ------------------------------ handlers ------------------------------ *)
(* Each handler as a function of the store and the request: the response   *)
(* it sends and the store it leaves.                                       *)

\* POST /users; uuid is what uuidv4() returns
CreateUserHandler(store, uuid, body) ==
    LET errors == userInputValidator(body) IN
    IF errors /= << >>
    THEN Out(Json(400, [errors |-> errors]), store)
    ELSE LET user == Spread([id |-> uuid, skills |-> << >>], body)
         IN  Out(Json(201, user), Insert(store, user.id, user))

\* AddSkillsHandler pushing the well-named skills before it looks at the
\* validation result
AddSkillsHandler_PushFirst(store, userId, body) ==
    LET errors == skillInputValidator(body) IN
    IF userId \notin DOMAIN store
    THEN Out(Send(404, "User not found"), store)
    ELSE IF ~("skills" \in DOMAIN body /\ body.skills.isArray)
    THEN Out(Json(400, [error |-> "Skills must be an array."]), store)
    ELSE LET named == SelectSeq(body.skills.items, LAMBDA sk : isString(sk.name))
             user == [store[userId] EXCEPT !.skills = PushSkills(@, named)]
         IN  IF errors /= << >>
             THEN Out(Json(400, [errors |-> errors]), Insert(store, userId, user))
             ELSE Out(Json(201, user.skills), Insert(store, userId, user))

\* POST /users/:id/skills
AddSkillsHandler(store, userId, body) ==
    LET errors == skillInputValidator(body) IN
    IF userId \notin DOMAIN store
    THEN Out(Send(404, "User not found"), store)
    ELSE IF ~("skills" \in DOMAIN body /\ body.skills.isArray)
    THEN Out(Json(400, [error |-> "Skills must be an array."]), store)
    ELSE IF errors /= << >>
    THEN Out(Json(400, [errors |-> errors]), store)
    ELSE LET user == [store[userId] EXCEPT
                         !.skills = PushSkills(@, body.skills.items)]
         IN  Out(Json(201, user.skills), Insert(store, userId, user))

\* the try block of the verify route; now is getCurrentDate()
VerifySkillTry(store, now, userId, skillName, body) ==
    IF userId \notin DOMAIN store
    THEN Out(Send(404, "User not found"), store)
    ELSE IF body.userId \notin DOMAIN store
    THEN Out(Send(404, "Verifier not found"), store)
    ELSE IF FindIndex(store[userId].skills, skillName) = 0
    THEN Out(Send(404, "Skill not found"), store)
    ELSE LET user == store[userId]
             i == FindIndex(user.skills, skillName)
             verifierId == body.userId
             rating == [userId |-> verifierId,
                        score |-> body.score,
                        comment |-> IF "comment" \in DOMAIN body
                                    THEN body.comment ELSE Undefined,
                        createdAt |-> now]
             skill == Rate(user.skills[i], rating)
         IN  IF HasRated(user.skills[i], verifierId)
             THEN Out(Send(400, "already rated"), store)
             ELSE Out(Json(200, skill),
                      Insert(store, userId, [user EXCEPT !.skills[i] = skill]))

\* VerifySkillHandler looking the target user up before it looks at the
\* validation result
VerifySkillHandler_LookupFirst(store, now, userId, skillName, body) ==
    LET errors == validateRatingInput(body) IN
    IF userId \notin DOMAIN store
    THEN Out(Send(404, "User not found"), store)
    ELSE IF errors /= << >>
    THEN Out(Json(400, [errors |-> errors]), store)
    ELSE VerifySkillTry(store, now, userId, skillName, body)

\* POST /users/:userId/skills/:skillName/verify
VerifySkillHandler(store, now, userId, skillName, body) ==
    LET errors == validateRatingInput(body) IN
    IF errors /= << >>
    THEN Out(Json(400, [errors |-> errors]), store)
    ELSE VerifySkillTry(store, now, userId, skillName, body)

\* GET /users/:id
GetUserHandler(store, userId) ==
    IF userId \notin DOMAIN store
    THEN Out(Send(404, "User not found"), store)
    ELSE Out(Json(200, store[userId]), store)

\* GET /users
GetUsersHandler(store) == Out(Json(200, Items(store)), store)

\* DELETE /users/:id
DeleteUserHandler(store, userId) ==
    IF userId \notin DOMAIN store
    THEN Out(Send(404, "User not found"), store)
    ELSE Out(Send(204, ""), Remove(store, userId))

\* UpdatedUser spreading in the other order: { ...req.body, ...user }
UpdatedUser_BodyFirst(user, body) == Spread(body, user)

\* const updatedUser = { ...user, ...req.body }
UpdatedUser(user, body) == Spread(user, body)

\* PUT /users/:id
UpdateUserHandler(store, userId, body) ==
    LET errors == userInputValidator(body) IN
    IF errors /= << >>
    THEN Out(Json(400, [errors |-> errors]), store)
    ELSE IF userId \notin DOMAIN store
    THEN Out(Send(404, "User not found"), store)
    ELSE LET updatedUser == UpdatedUser(store[userId], body)
         IN  Out(Json(200, updatedUser), Insert(store, userId, updatedUser))

\* GET /users/:id/skills
GetSkillsHandler(store, userId) ==
    IF userId \notin DOMAIN store
    THEN Out(Send(404, "User not found"), store)
    ELSE Out(Json(200, store[userId].skills), store)

\* DELETE /users/:id/skills/:skillName
RemoveSkillHandler(store, userId, skillName) ==
    IF userId \notin DOMAIN store
    THEN Out(Send(404, "User not found"), store)
    ELSE IF FindIndex(store[userId].skills, skillName) = 0
    THEN Out(Send(404, "Skill not found"), store)
    ELSE LET user == store[userId]
             skillIndex == FindIndex(user.skills, skillName)
         IN  Out(Send(204, ""),
                 Insert(store, userId,
                        [user EXCEPT !.skills = Splice(@, skillIndex)]))

(* ------------------------------ requests ------------------------------ *)
(* One action per route: the handler runs to completion on the store.      *)

\* the handler `out` answered the request to `r`
Served(r, out) ==
    /\ route' = r
    /\ res' = out.res
    /\ usersStorage' = out.store

\* uuidv4(): the next id of the pool
uuidv4 == Uuid(IF uuidCount < Len(UuidPool) THEN uuidCount + 1 ELSE 1)

CreateUser(body) ==
    LET out == CreateUserHandler(usersStorage, uuidv4, body) IN
    /\ out.res.status = 201 => uuidCount < Len(UuidPool)
    /\ Served("POST /users", out)
    /\ IF out.res.status = 201
       THEN /\ uuidCount' = uuidCount + 1
            /\ createdId' = Insert(createdId, out.res.body.id, out.res.body.id)
       ELSE UNCHANGED <<uuidCount, createdId>>
    /\ UNCHANGED <<clock, appended>>

AddSkills(userId, body) ==
    LET out == AddSkillsHandler(usersStorage, userId, body) IN
    /\ out.res.status = 201 => Len(out.res.body) <= MaxSkills
    /\ Served("POST /users/:id/skills", out)
    /\ UNCHANGED <<uuidCount, clock, createdId, appended>>

VerifySkill(userId, skillName, body) ==
    LET out == VerifySkillHandler(usersStorage, clock, userId, skillName, body) IN
    /\ Served("POST /users/:userId/skills/:skillName/verify", out)
    /\ IF out.res.status = 200
       THEN /\ clock <= MaxClock
            /\ clock' = clock + 1
            /\ appended' = appended \cup
                   {<<userId, skillName,
                      out.res.body.ratings[Len(out.res.body.ratings)]>>}
       ELSE UNCHANGED <<clock, appended>>
    /\ UNCHANGED <<uuidCount, createdId>>

GetUser(userId) ==
    /\ Served("GET /users/:id", GetUserHandler(usersStorage, userId))
    /\ UNCHANGED <<uuidCount, clock, createdId, appended>>

GetUsers ==
    /\ Served("GET /users", GetUsersHandler(usersStorage))
    /\ UNCHANGED <<uuidCount, clock, createdId, appended>>

DeleteUser(userId) ==
    LET out == DeleteUserHandler(usersStorage, userId) IN
    /\ Served("DELETE /users/:id", out)
    /\ createdId' = IF out.res.status = 204 THEN Remove(createdId, userId)
                    ELSE createdId
    /\ UNCHANGED <<uuidCount, clock, appended>>

UpdateUser(userId, body) ==
    /\ Served("PUT /users/:id", UpdateUserHandler(usersStorage, userId, body))
    /\ UNCHANGED <<uuidCount, clock, createdId, appended>>

GetSkills(userId) ==
    /\ Served("GET /users/:id/skills", GetSkillsHandler(usersStorage, userId))
    /\ UNCHANGED <<uuidCount, clock, createdId, appended>>

RemoveSkill(userId, skillName) ==
    /\ Served("DELETE /users/:id/skills/:skillName",
              RemoveSkillHandler(usersStorage, userId, skillName))
    /\ UNCHANGED <<uuidCount, clock, createdId, appended>>

(* --------------------------- specification ---------------------------- *)

Init ==
    /\ usersStorage = [x \in {} |-> x]
    /\ uuidCount = 0
    /\ clock = 1
    /\ route = ""
    /\ res = Send(0, "")
    /\ createdId = [x \in {} |-> x]
    /\ appended = {}

\* the ids a client has seen in responses
IssuedIds == {Uuid(n) : n \in 1..uuidCount}

Next ==
    \/ \E n \in Opt(NameVals), a \in Opt(AgeVals), i \in Opt(IssuedIds),
          s \in Opt(SkillsPayloads) :
          CreateUser(UserBody(n, a, i, s))
    \/ \E userId \in AllIds, sk \in Opt(SkillsArrays) :
          AddSkills(userId, SkillsBody(sk))
    \/ \E userId \in AllIds, skillName \in SkillParams, v \in Opt(VerifierVals),
          sc \in Opt(ScoreVals), c \in Opt(CommentVals) :
          VerifySkill(userId, skillName, RatingBody(v, sc, c))
    \/ \E userId \in AllIds : GetUser(userId)
    \/ GetUsers
    \/ \E userId \in AllIds : DeleteUser(userId)
    \/ \E userId \in AllIds, n \in Opt(NameVals), a \in Opt(AgeVals),
          i \in Opt(IssuedIds), s \in Opt(SkillsPayloads) :
          UpdateUser(userId, UserBody(n, a, i, s))
    \/ \E userId \in AllIds : GetSkills(userId)
    \/ \E userId \in AllIds, skillName \in SkillParams :
          RemoveSkill(userId, skillName)

Spec == Init /\ [][Next]_vars

(* ----------------------------- properties ----------------------------- *)

\* the outcome a response stands for
NotFound(r) == r.status = 404
ValidationError(r) == r.status = 400 /\ r.type = "json"
Conflict(r) == r.status = 400 /\ r.type = "text"
Failure(r) == NotFound(r) \/ ValidationError(r) \/ Conflict(r)

SkillsOf(u) == usersStorage[u].skills
IsPrefix(p, q) == Len(p) <= Len(q) /\ \A i \in 1..Len(p) : p[i] = q[i]
Owns(skills, skillName) == \E i \in 1..Len(skills) : skills[i].name = skillName

\* the values the properties try the handlers on
AnyNames == Names \cup {"Bob"}
AnyAges == Ages \cup {31}
AnyScores == {MinScore - 1, MinScore, MaxScore, MaxScore + 1}
AnyComments == CommentVals \cup {"nice"}

\* C1: every skill of every stored user has verified = TRUE exactly when its
\* ratings sequence is non-empty.
C1_VerifiedIffRated ==
    \A u \in DOMAIN usersStorage : \A i \in 1..Len(SkillsOf(u)) :
        SkillsOf(u)[i].verified = (Len(SkillsOf(u)[i].ratings) > 0)

\* C2: no two ratings of one skill have the same userId.
C2_OneRatingPerVerifier ==
    \A u \in DOMAIN usersStorage : \A i \in 1..Len(SkillsOf(u)) :
        LET ratings == SkillsOf(u)[i].ratings
        IN  \A a, b \in 1..Len(ratings) :
                a /= b => ratings[a].userId /= ratings[b].userId

\* C3: the record stored under key k has id k, the id it had when created.
C3_IdNeverChanges ==
    \A k \in DOMAIN usersStorage :
        /\ usersStorage[k].id = k
        /\ usersStorage[k].id = createdId[k]

\* C4: a successful CreateUser stores and returns a record whose id was the
\* key of no record before the call and whose skills are empty, and leaves
\* the records that existed before unchanged.
C4_CreateUserFresh ==
    [][(route' = "POST /users" /\ res'.status = 201) =>
          /\ res'.body.id \notin DOMAIN usersStorage
          /\ res'.body.skills = << >>
          /\ usersStorage'[res'.body.id] = res'.body
          /\ \A k \in DOMAIN usersStorage :
                k \in DOMAIN usersStorage' /\ usersStorage'[k] = usersStorage[k]
      ]_vars

\* C5: every rating in the store was appended by the verify route, for a
\* verifier that was stored at that moment.
C5_RatingsComeFromVerify ==
    \A u \in DOMAIN usersStorage : \A i \in 1..Len(SkillsOf(u)) :
        \A j \in 1..Len(SkillsOf(u)[i].ratings) :
            <<u, SkillsOf(u)[i].name, SkillsOf(u)[i].ratings[j]>> \in appended

\* C6: a request answered with ValidationError, NotFound or Conflict leaves
\* the whole store as it was.
C6_FailureLeavesStore ==
    [][Failure(res') => usersStorage' = usersStorage]_vars

\* C6 witness: AddSkills was refused for a sequence whose second name is
\* invalid and whose first is valid.
C6_Witness ==
    /\ route = "POST /users/:id/skills"
    /\ ValidationError(res)
    /\ "errors" \in DOMAIN res.body
    /\ res.body.errors = <<2>>

\* the skills of u are what AddSkills and VerifySkill made of them
FromAddSkills(u) ==
    \A i \in 1..Len(SkillsOf(u)) :
        /\ SkillsOf(u)[i].verified = (Len(SkillsOf(u)[i].ratings) > 0)
        /\ \A j \in 1..Len(SkillsOf(u)[i].ratings) :
              <<u, SkillsOf(u)[i].name, SkillsOf(u)[i].ratings[j]>> \in appended

\* C7: after a successful RemoveSkill(u, X) the skills of u hold no skill
\* named X.
C7_RemoveSkillRemovesName ==
    [][\A u \in AllIds, X \in SkillParams :
          (/\ route' = "DELETE /users/:id/skills/:skillName"
           /\ res'.status = 204
           /\ u \in DOMAIN usersStorage
           /\ FromAddSkills(u)
           /\ RemoveSkill(u, X))
          => ~Owns(usersStorage'[u].skills, X)
      ]_vars

\* the record UpdateUser is to store for body fields n, a
Merged(user, n, a) ==
    [id |-> user.id,
     name |-> IF n = {} THEN user.name ELSE The(n),
     age |-> IF a = {} THEN user.age ELSE The(a),
     skills |-> user.skills]

\* C8 as stated: UpdateUser with any subset of {name, age} succeeds on an
\* existing user, replaces the provided fields and keeps the rest.
C8_UpdateUserAnySubset ==
    \A userId \in DOMAIN usersStorage, n \in Opt(AnyNames), a \in Opt(AnyAges) :
        LET out == UpdateUserHandler(usersStorage, userId, UserBody(n, a, {}, {}))
        IN  /\ out.res.status = 200
            /\ out.store[userId] = Merged(usersStorage[userId], n, a)

\* C8 amended: UpdateUser needs both name and age.  With both valid it
\* answers NotFound for an absent id and otherwise stores and returns the
\* record with name and age replaced and id and skills as before, leaving
\* every other record alone; with either missing it answers ValidationError
\* and leaves the store alone.
C8_UpdateUserNeedsBoth ==
    \A userId \in AllIds, n \in Opt(AnyNames), a \in Opt(AnyAges) :
        LET out == UpdateUserHandler(usersStorage, userId, UserBody(n, a, {}, {}))
        IN  IF n = {} \/ a = {}
            THEN ValidationError(out.res) /\ out.store = usersStorage
            ELSE IF userId \notin DOMAIN usersStorage
            THEN NotFound(out.res) /\ out.store = usersStorage
            ELSE /\ out.res.status = 200
                 /\ out.res.body = Merged(usersStorage[userId], n, a)
                 /\ out.store =
                        Insert(usersStorage, userId,
                               Merged(usersStorage[userId], n, a))

\* C8 witness: UpdateUser succeeded on a user who has a verified skill.
C8_Witness ==
    /\ route = "PUT /users/:id"
    /\ res.status = 200
    /\ Len(res.body.skills) > 0
    /\ res.body.skills[1].verified
    /\ usersStorage[res.body.id].skills = res.body.skills

\* what the checks of VerifySkill find for verifier v, score sc, comment c
TargetAbsent(u) == u \notin DOMAIN usersStorage
VerifierAbsent(v) == v = {} \/ The(v) \notin DOMAIN usersStorage
SkillAbsent(u, X) == ~Owns(SkillsOf(u), X)
ScoreInvalid(sc) == sc = {} \/ The(sc) \notin MinScore..MaxScore
BodyInvalid(v, sc, c) ==
    \/ v = {} \/ The(v) = NonString
    \/ ScoreInvalid(sc)
    \/ c /= {} /\ The(c) = NonString
AlreadyRated(u, X, v) ==
    \E i \in 1..Len(SkillsOf(u)) :
        /\ SkillsOf(u)[i].name = X
        /\ \A j \in 1..(i - 1) : SkillsOf(u)[j].name /= X
        /\ \E k \in 1..Len(SkillsOf(u)[i].ratings) :
              SkillsOf(u)[i].ratings[k].userId = The(v)

\* C9 as stated: target absent, verifier absent, skill absent, score invalid,
\* already rated, in this order; the first that fails decides.
C9_ChecksInStatedOrder ==
    \A u \in AllIds, X \in SkillParams, v \in Opt(VerifierVals),
       sc \in Opt(AnyScores), c \in Opt(AnyComments) :
        LET r == VerifySkillHandler(usersStorage, clock, u, X,
                                    RatingBody(v, sc, c)).res
        IN  IF TargetAbsent(u) THEN NotFound(r)
            ELSE IF VerifierAbsent(v) THEN NotFound(r)
            ELSE IF SkillAbsent(u, X) THEN NotFound(r)
            ELSE IF ScoreInvalid(sc) THEN ValidationError(r)
            ELSE IF AlreadyRated(u, X, v) THEN Conflict(r)
            ELSE TRUE

\* C9 amended: the body is validated first (userId a string, score an
\* integer in 1..5, comment a string when present) -> ValidationError; then
\* target absent -> NotFound, verifier absent -> NotFound, skill absent ->
\* NotFound, already rated -> Conflict; otherwise the rating is stored.  A
\* refused call leaves the store alone.
C9_ValidationFirst ==
    \A u \in AllIds, X \in SkillParams, v \in Opt(VerifierVals),
       sc \in Opt(AnyScores), c \in Opt(AnyComments) :
        LET out == VerifySkillHandler(usersStorage, clock, u, X,
                                      RatingBody(v, sc, c))
            r == out.res
        IN  IF BodyInvalid(v, sc, c)
            THEN ValidationError(r) /\ out.store = usersStorage
            ELSE IF TargetAbsent(u)
            THEN NotFound(r) /\ r.body = "User not found"
                 /\ out.store = usersStorage
            ELSE IF VerifierAbsent(v)
            THEN NotFound(r) /\ r.body = "Verifier not found"
                 /\ out.store = usersStorage
            ELSE IF SkillAbsent(u, X)
            THEN NotFound(r) /\ r.body = "Skill not found"
                 /\ out.store = usersStorage
            ELSE IF AlreadyRated(u, X, v)
            THEN Conflict(r) /\ out.store = usersStorage
            ELSE /\ r.status = 200
                 /\ r.body.verified
                 /\ r.body.ratings[Len(r.body.ratings)].userId = The(v)
                 /\ r.body.ratings[Len(r.body.ratings)].score = The(sc)
                 /\ Owns(out.store[u].skills, X)

\* C9 witness: a verify call for an absent target user with a bad score was
\* answered ValidationError.
C9_Witness ==
    /\ route = "POST /users/:userId/skills/:skillName/verify"
    /\ ValidationError(res)
    /\ DOMAIN usersStorage = {}
    /\ \E i \in 1..Len(res.body.errors) : res.body.errors[i] = "score"

\* C10: a skill that is verified with ratings is, in the next state in which
\* its user still owns it, still verified with its ratings a prefix of the
\* ratings it has then, unless RemoveSkill discarded it.
C10_VerifiedIsOneWay ==
    [][\A u \in DOMAIN usersStorage : \A i \in 1..Len(SkillsOf(u)) :
          LET skill == SkillsOf(u)[i]
              removed ==
                  /\ route' = "DELETE /users/:id/skills/:skillName"
                  /\ res'.status = 204
                  /\ Len(usersStorage'[u].skills) < Len(SkillsOf(u))
                  /\ FindIndex(SkillsOf(u), skill.name) = i
              owned ==
                  /\ u \in DOMAIN usersStorage'
                  /\ Owns(usersStorage'[u].skills, skill.name)
              survives ==
                  \E j \in 1..Len(usersStorage'[u].skills) :
                      LET after == usersStorage'[u].skills[j]
                      IN  /\ after.name = skill.name
                          /\ after.verified
                          /\ IsPrefix(skill.ratings, after.ratings)
          IN  (skill.verified /\ skill.ratings /= << >> /\ owned /\ ~removed)
                  => survives
      ]_vars

====
